---- MODULE Spec2Model ----
(***************************************************************************)
(* siphon: a work queue kept in redis.  QueueManager (the registry) maps   *)
(* queue names to Queue objects; a Queue pushes job keys to the redis list *)
(* 'queue:<name>' and keeps each job's fields in the redis hash stored     *)
(* under the job key itself.  Lists and hashes share one redis keyspace.   *)
(***************************************************************************)
EXTENDS Naturals, Sequences, FiniteSets, Bags, TLC

VARIABLES
    queues,     \* QueueManager.queues: the class-level dict name -> Queue
    database,   \* the redis keyspace behind the connection: key -> value
    pushed,     \* history: per queue name, the keys rpush has appended
    popped,     \* history: per queue name, the keys lpop has handed out, one per call
    last,       \* the last call made and how it ended
    threads,    \* per calling thread, the call it is in and where
    created     \* history: the names some create_queue has returned for

vars == <<queues, database, pushed, popped, last, threads, created>>

\* what the sequential operations leave alone
tvars == <<threads, created>>

----------------------------------------------------------------------------
(* Bounds and input domains *)

\* successful list pushes in one behaviour
MaxPush == 2

QueueNames == {"foo", "bar"}
Keys == {"k1", "k2", "queue:foo"}
Fields == {"a", "b", "key", "queue_name"}
Values == {"1", "2"}

\* marks a field that a mapping does not hold
Nil == "nil"

\* python dicts of str -> str over Fields
Dicts == [Fields -> Values \cup {Nil}]
EmptyDict == [f \in Fields |-> Nil]
items(data) == {f \in Fields : data[f] # Nil}

\* the dict {'a': a, 'b': b}, a field given as Nil left out
Dict(a, b) ==
    [f \in Fields |-> IF f = "a" THEN a ELSE IF f = "b" THEN b ELSE Nil]

\* the field maps callers pass to enqueue: {}, {'a': '1'}, {'a': '2', 'b': '1'}
DataSet == {EmptyDict, Dict("1", Nil), Dict("2", "1")}

----------------------------------------------------------------------------
(* redis values: a key holds nothing, a non-empty list or a non-empty hash *)

NoValue == [type |-> "none", items |-> <<>>, fields |-> EmptyDict]
ListValue(s) == IF s = <<>> THEN NoValue
                ELSE [type |-> "list", items |-> s, fields |-> EmptyDict]
HashValue(m) == IF m = EmptyDict THEN NoValue
                ELSE [type |-> "hash", items |-> <<>>, fields |-> m]

\* Queue.__init__ changed to leave the name out of the list identifier
Queue_unnamed(name, connection) ==
    [name |-> "queue" \o ":", database |-> connection]

\* Queue.__init__: the list identifier and the connection
Queue(name, connection) ==
    [name |-> "queue" \o ":" \o name, database |-> connection]

\* QueueManager.__init__: the connection the manager hands to its queues
connection == "redis"

StoreKeys == {Queue(n, connection).name : n \in QueueNames} \cup Keys

\* no exception
NoError == ""

----------------------------------------------------------------------------
(* The store calls the Queue makes.  Each is one indivisible redis command; *)
(* a command on a key holding the other type is refused (WRONGTYPE, raised  *)
(* by the client as ResponseError).                                         *)

\* rpush changed to append the value twice
rpush_twice(db, name, value) ==
    IF db[name].type = "hash"
    THEN [raised |-> "ResponseError", db |-> db]
    ELSE [raised |-> NoError,
          db |-> [db EXCEPT
                    ![name] = ListValue(Append(Append(@.items, value), value))]]

\* rpush changed to put the value at the head of the list
rpush_front(db, name, value) ==
    IF db[name].type = "hash"
    THEN [raised |-> "ResponseError", db |-> db]
    ELSE [raised |-> NoError,
          db |-> [db EXCEPT ![name] = ListValue(<<value>> \o @.items)]]

\* self.database.rpush(self.name, key)
rpush(db, name, value) ==
    IF db[name].type = "hash"
    THEN [raised |-> "ResponseError", db |-> db]
    ELSE [raised |-> NoError,
          db |-> [db EXCEPT ![name] = ListValue(Append(@.items, value))]]

\* lpop changed to take the entry at the tail (rpop)
lpop_tail(db, name) ==
    IF db[name].type = "hash"
    THEN [raised |-> "ResponseError", db |-> db, none |-> TRUE, value |-> ""]
    ELSE IF db[name].type = "none"
    THEN [raised |-> NoError, db |-> db, none |-> TRUE, value |-> ""]
    ELSE LET l == db[name].items
         IN  [raised |-> NoError,
              db |-> [db EXCEPT ![name] = ListValue(SubSeq(l, 1, Len(l) - 1))],
              none |-> FALSE, value |-> l[Len(l)]]

\* lpop changed to read the head and leave it in the list (lindex 0)
lpop_keep(db, name) ==
    IF db[name].type = "hash"
    THEN [raised |-> "ResponseError", db |-> db, none |-> TRUE, value |-> ""]
    ELSE IF db[name].type = "none"
    THEN [raised |-> NoError, db |-> db, none |-> TRUE, value |-> ""]
    ELSE [raised |-> NoError, db |-> db,
          none |-> FALSE, value |-> Head(db[name].items)]

\* lpop changed to delete the whole list after it took the head
lpop_clear(db, name) ==
    IF db[name].type = "hash"
    THEN [raised |-> "ResponseError", db |-> db, none |-> TRUE, value |-> ""]
    ELSE IF db[name].type = "none"
    THEN [raised |-> NoError, db |-> db, none |-> TRUE, value |-> ""]
    ELSE [raised |-> NoError,
          db |-> [db EXCEPT ![name] = NoValue],
          none |-> FALSE, value |-> Head(db[name].items)]

\* self.database.lpop(self.name)
lpop(db, name) ==
    IF db[name].type = "hash"
    THEN [raised |-> "ResponseError", db |-> db, none |-> TRUE, value |-> ""]
    ELSE IF db[name].type = "none"
    THEN [raised |-> NoError, db |-> db, none |-> TRUE, value |-> ""]
    ELSE [raised |-> NoError,
          db |-> [db EXCEPT ![name] = ListValue(Tail(@.items))],
          none |-> FALSE, value |-> Head(db[name].items)]

\* hset changed to replace the whole map by the one field
hset_replace(db, key, k, v) ==
    IF db[key].type = "list"
    THEN [raised |-> "ResponseError", db |-> db]
    ELSE [raised |-> NoError,
          db |-> [db EXCEPT ![key] = HashValue([EmptyDict EXCEPT ![k] = v])]]

\* hset changed to leave a field that exists as it is (hsetnx)
hset_if_absent(db, key, k, v) ==
    IF db[key].type = "list"
    THEN [raised |-> "ResponseError", db |-> db]
    ELSE [raised |-> NoError,
          db |-> [db EXCEPT ![key] =
                    HashValue([@.fields EXCEPT
                                 ![k] = IF @ = Nil THEN v ELSE @])]]

\* self.database.hset(key, k, v)
hset(db, key, k, v) ==
    IF db[key].type = "list"
    THEN [raised |-> "ResponseError", db |-> db]
    ELSE [raised |-> NoError,
          db |-> [db EXCEPT ![key] = HashValue([@.fields EXCEPT ![k] = v])]]

\* self.database.hgetall(key)
hgetall(db, key) ==
    IF db[key].type = "list"
    THEN [raised |-> "ResponseError", data |-> EmptyDict]
    ELSE [raised |-> NoError, data |-> db[key].fields]

\* self.database.delete(key)
delete(db, key) == [raised |-> NoError, db |-> [db EXCEPT ![key] = NoValue]]

\* self.database.lrange(self.name, -1, -1)
lrange_last(db, name) ==
    IF db[name].type = "hash"
    THEN [raised |-> "ResponseError", items |-> <<>>]
    ELSE IF db[name].type = "none"
    THEN [raised |-> NoError, items |-> <<>>]
    ELSE [raised |-> NoError,
          items |-> <<db[name].items[Len(db[name].items)]>>]

----------------------------------------------------------------------------
(* Queue *)

\* Queue._push_to_queue
_push_to_queue(db, self, key) == rpush(db, self.name, key)

\* Queue._set_hash_data: one hset per item of data, in dict order; the first
\* command that raises ends the loop
RECURSIVE _set_hash_loop(_, _, _, _)
_set_hash_loop(db, key, data, todo) ==
    IF todo = {} THEN [raised |-> NoError, db |-> db]
    ELSE LET k == CHOOSE f \in todo : TRUE
             r == hset(db, key, k, data[k])
         IN  IF r.raised # NoError THEN r
             ELSE _set_hash_loop(r.db, key, data, todo \ {k})

_set_hash_data(db, key, data) == _set_hash_loop(db, key, data, items(data))

\* Queue.enqueue: push, then write the fields
Queue_enqueue(db, self, key, data) ==
    LET p == _push_to_queue(db, self, key)
    IN  IF p.raised # NoError
        THEN [raised |-> p.raised, db |-> p.db, pushed |-> FALSE]
        ELSE LET s == _set_hash_data(p.db, key, data)
             IN  [raised |-> s.raised, db |-> s.db, pushed |-> TRUE]

\* Queue._pop
_pop(db, self) == lpop(db, self.name)

\* Queue._get_hash_data: the dict, or None when it has no items
_get_hash_data(db, key) ==
    LET r == hgetall(db, key)
    IN  IF r.raised # NoError
        THEN [raised |-> r.raised, none |-> TRUE, data |-> EmptyDict]
        ELSE IF Cardinality(items(r.data)) = 0
        THEN [raised |-> NoError, none |-> TRUE, data |-> EmptyDict]
        ELSE [raised |-> NoError, none |-> FALSE, data |-> r.data]

\* Queue._delete_hash_data
_delete_hash_data(db, key) == delete(db, key)

\* Queue._peek_last_element: the last entry, or the empty list lrange gave
_peek_last_element(db, self) ==
    LET r == lrange_last(db, self.name)
    IN  IF r.raised # NoError
        THEN [raised |-> r.raised, empty |-> TRUE, value |-> ""]
        ELSE IF Len(r.items) > 0
        THEN [raised |-> NoError, empty |-> FALSE, value |-> r.items[1]]
        ELSE [raised |-> NoError, empty |-> TRUE, value |-> ""]

\* Queue has no attribute 'dequeue': the call queue.dequeue() raises
Queue_dequeue(db, self) == [raised |-> "AttributeError", db |-> db]

----------------------------------------------------------------------------
(* QueueManager *)

NoQueue == [name |-> "", database |-> ""]

\* _get_queue changed to build a Queue for a name it does not hold
_get_queue_default(qs, queue_name) ==
    IF queue_name \in DOMAIN qs
    THEN [none |-> FALSE, queue |-> qs[queue_name]]
    ELSE [none |-> FALSE, queue |-> Queue(queue_name, connection)]

\* _get_queue changed to look the name up under the list identifier
_get_queue_by_list(qs, queue_name) ==
    IF Queue(queue_name, connection).name \in DOMAIN qs
    THEN [none |-> FALSE, queue |-> qs[Queue(queue_name, connection).name]]
    ELSE [none |-> TRUE, queue |-> NoQueue]

\* QueueManager._get_queue: the Queue, or None
_get_queue(qs, queue_name) ==
    IF queue_name \in DOMAIN qs
    THEN [none |-> FALSE, queue |-> qs[queue_name]]
    ELSE [none |-> TRUE, queue |-> NoQueue]

\* what a call left behind: the call, the exception it raised (NoError if
\* none) and the value it returned
Call(op, queue_name, key, data, raised, ret, retkey, retdata) ==
    [op |-> op, queue |-> queue_name, key |-> key, data |-> data,
     raised |-> raised, ret |-> IF raised = NoError THEN ret ELSE "",
     retkey |-> retkey, retdata |-> retdata]

TotalPushed == Len(pushed["foo"]) + Len(pushed["bar"])

\* the threads that call the manager; each holds a QueueManager of its own,
\* built on a client of its own to the same redis server
Threads == {"t1", "t2"}
Connection(t) == connection \o ":" \o t

\* a thread's frame: the call it is in, the line it is at, and what the call
\* left behind.  after and previous are history: whether some create_queue
\* for the name had returned when the call started, and the Queue the name
\* resolved to before this create_queue stored its own
Frame(pc, op, queue_name, after, raised, ret, previous) ==
    [pc |-> pc, op |-> op, queue_name |-> queue_name, after |-> after,
     raised |-> raised, ret |-> ret, previous |-> previous]
Idle == Frame("idle", "", "", FALSE, NoError, NoQueue, NoQueue)

Init ==
    /\ queues = [n \in {} |-> NoQueue]
    /\ database = [k \in StoreKeys |-> NoValue]
    /\ pushed = [n \in QueueNames |-> <<>>]
    /\ popped = [n \in QueueNames |-> <<>>]
    /\ last = Call("init", "", "", EmptyDict, NoError, "None", "", EmptyDict)
    /\ threads = [t \in Threads |-> Idle]
    /\ created = {}

\* create_queue changed to rebind queues to a dict holding the new Queue alone
create_queue_rebind(queue_name) ==
    /\ queues' = [n \in {queue_name} |-> Queue(queue_name, connection)]
    /\ last' = Call("create_queue", queue_name, "", EmptyDict, NoError,
                    "Queue", "", EmptyDict)
    /\ UNCHANGED <<database, pushed, popped>>

\* create_queue changed to start the queue with an empty list
create_queue_flush(queue_name) ==
    /\ queues' = [n \in DOMAIN queues \cup {queue_name} |->
                    IF n = queue_name THEN Queue(queue_name, connection)
                    ELSE queues[n]]
    /\ database' = delete(database, Queue(queue_name, connection).name).db
    /\ last' = Call("create_queue", queue_name, "", EmptyDict, NoError,
                    "Queue", "", EmptyDict)
    /\ UNCHANGED <<pushed, popped>>

\* QueueManager.create_queue
create_queue(queue_name) ==
    /\ queues' = [n \in DOMAIN queues \cup {queue_name} |->
                    IF n = queue_name THEN Queue(queue_name, connection)
                    ELSE queues[n]]
    /\ last' = Call("create_queue", queue_name, "", EmptyDict, NoError,
                    "Queue", "", EmptyDict)
    /\ UNCHANGED <<database, pushed, popped>>

\* QueueManager.enqueue changed to enqueue on a Queue built for the name
\* before it raises for a name it does not hold
enqueue_unchecked(queue_name, key, data) ==
    LET g == _get_queue(queues, queue_name)
        q == IF g.none THEN Queue(queue_name, connection) ELSE g.queue
        e == Queue_enqueue(database, q, key, data)
    IN  /\ e.pushed => TotalPushed < MaxPush
        /\ database' = e.db
        /\ pushed' = IF e.pushed
                     THEN [pushed EXCEPT ![queue_name] = Append(@, key)]
                     ELSE pushed
        /\ last' = Call("enqueue", queue_name, key, data,
                        IF g.none THEN "QueueNotFound" ELSE e.raised,
                        IF g.none THEN "" ELSE "True", "", EmptyDict)
        /\ UNCHANGED <<queues, popped>>

\* QueueManager.enqueue
enqueue(queue_name, key, data) ==
    LET g == _get_queue(queues, queue_name)
        e == Queue_enqueue(database, g.queue, key, data)
    IN  IF g.none
        THEN /\ last' = Call("enqueue", queue_name, key, data,
                             "QueueNotFound", "", "", EmptyDict)
             /\ UNCHANGED <<queues, database, pushed, popped>>
        ELSE /\ e.pushed => TotalPushed < MaxPush
             /\ database' = e.db
             /\ pushed' = IF e.pushed
                          THEN [pushed EXCEPT ![queue_name] = Append(@, key)]
                          ELSE pushed
             /\ last' = Call("enqueue", queue_name, key, data,
                             e.raised, "True", "", EmptyDict)
             /\ UNCHANGED <<queues, popped>>

\* QueueManager.dequeue
dequeue(queue_name) ==
    LET g == _get_queue(queues, queue_name)
        d == Queue_dequeue(database, g.queue)
    IN  IF g.none
        THEN /\ last' = Call("dequeue", queue_name, "", EmptyDict,
                             "QueueNotFound", "", "", EmptyDict)
             /\ UNCHANGED <<queues, database, pushed, popped>>
        ELSE /\ database' = d.db
             /\ last' = Call("dequeue", queue_name, "", EmptyDict,
                             d.raised, "", "", EmptyDict)
             /\ UNCHANGED <<queues, pushed, popped>>

\* a caller holding the Queue that create_queue returned calls queue._pop()
pop(queue_name) ==
    /\ queue_name \in DOMAIN queues
    /\ LET r == _pop(database, queues[queue_name])
       IN  /\ database' = r.db
           /\ popped' = IF r.raised = NoError /\ ~r.none
                        THEN [popped EXCEPT ![queue_name] = Append(@, r.value)]
                        ELSE popped
           /\ last' = Call("_pop", queue_name, "", EmptyDict, r.raised,
                           IF r.none THEN "None" ELSE "key", r.value, EmptyDict)
    /\ UNCHANGED <<queues, pushed>>

\* ... calls queue._get_hash_data(key)
get_hash_data(key) ==
    /\ DOMAIN queues # {}
    /\ LET r == _get_hash_data(database, key)
       IN  last' = Call("_get_hash_data", "", key, EmptyDict, r.raised,
                        IF r.none THEN "None" ELSE "dict", "", r.data)
    /\ UNCHANGED <<queues, database, pushed, popped>>

\* ... calls queue._delete_hash_data(key)
delete_hash_data(key) ==
    /\ DOMAIN queues # {}
    /\ LET r == _delete_hash_data(database, key)
       IN  /\ database' = r.db
           /\ last' = Call("_delete_hash_data", "", key, EmptyDict,
                           r.raised, "None", "", EmptyDict)
    /\ UNCHANGED <<queues, pushed, popped>>

\* ... calls queue._peek_last_element()
peek_last_element(queue_name) ==
    /\ queue_name \in DOMAIN queues
    /\ LET r == _peek_last_element(database, queues[queue_name])
       IN  last' = Call("_peek_last_element", queue_name, "", EmptyDict,
                        r.raised, IF r.empty THEN "[]" ELSE "key", r.value,
                        EmptyDict)
    /\ UNCHANGED <<queues, database, pushed, popped>>

----------------------------------------------------------------------------
(* Enqueue over a connection that can break.  A command sent once the      *)
(* connection is down raises ConnectionError and changes nothing; the      *)
(* exception ends the call, since neither Queue nor QueueManager catches.  *)

\* the orders in which data.items() can yield the items of data
Orders(data) ==
    {o \in UNION {[1..m -> items(data)] : m \in {Cardinality(items(data))}} :
        \A i, j \in DOMAIN o : i # j => o[i] # o[j]}

\* Queue._set_hash_data from item i of order on; the command numbered fail
\* meets the broken connection; calls counts the commands sent
RECURSIVE _set_hash_from(_, _, _, _, _, _)
_set_hash_from(db, key, data, order, i, fail) ==
    IF i > Len(order) THEN [raised |-> NoError, db |-> db, calls |-> i]
    ELSE IF fail = i + 1
    THEN [raised |-> "ConnectionError", db |-> db, calls |-> i + 1]
    ELSE LET r == hset(db, key, order[i], data[order[i]])
         IN  IF r.raised # NoError
             THEN [raised |-> r.raised, db |-> r.db, calls |-> i + 1]
             ELSE _set_hash_from(r.db, key, data, order, i + 1, fail)

\* Queue.enqueue changed to write the fields before it pushes the key
Queue_enqueue_write_first(db, self, key, data, order, fail) ==
    LET s == _set_hash_from(db, key, data, order, 1, fail + 1)
    IN  IF s.raised # NoError
        THEN [raised |-> s.raised, db |-> s.db, pushed |-> FALSE,
              calls |-> s.calls - 1]
        ELSE IF fail = s.calls
        THEN [raised |-> "ConnectionError", db |-> s.db, pushed |-> FALSE,
              calls |-> s.calls]
        ELSE LET p == _push_to_queue(s.db, self, key)
             IN  [raised |-> p.raised, db |-> p.db,
                  pushed |-> p.raised = NoError, calls |-> s.calls]

\* Queue.enqueue changed to send the push a second time when it raised
Queue_enqueue_retry(db, self, key, data, order, fail) ==
    LET p == IF fail = 1 THEN [raised |-> "ConnectionError", db |-> db]
             ELSE _push_to_queue(db, self, key)
        q == IF p.raised # NoError THEN _push_to_queue(db, self, key) ELSE p
        n == IF p.raised # NoError THEN 1 ELSE 0
    IN  IF q.raised # NoError
        THEN [raised |-> q.raised, db |-> q.db, pushed |-> FALSE,
              calls |-> 1 + n]
        ELSE LET s == _set_hash_from(q.db, key, data, order, 1, fail)
             IN  [raised |-> s.raised, db |-> s.db, pushed |-> TRUE,
                  calls |-> s.calls + n]

\* Queue.enqueue, command by command: the push is command 1, the hset of
\* item i is command i + 1
Queue_enqueue_commands(db, self, key, data, order, fail) ==
    IF fail = 1
    THEN [raised |-> "ConnectionError", db |-> db, pushed |-> FALSE,
          calls |-> 1]
    ELSE LET p == _push_to_queue(db, self, key)
         IN  IF p.raised # NoError
             THEN [raised |-> p.raised, db |-> p.db, pushed |-> FALSE,
                   calls |-> 1]
             ELSE LET s == _set_hash_from(p.db, key, data, order, 1, fail)
                  IN  [raised |-> s.raised, db |-> s.db, pushed |-> TRUE,
                       calls |-> s.calls]

\* the call record with the number of store commands the call sent
Counting(call, calls) == call @@ [calls |-> calls]

\* QueueManager.enqueue over a connection that breaks at command fail
\* (0: it holds)
enqueue_commands(queue_name, key, data, order, fail) ==
    LET g == _get_queue(queues, queue_name)
        e == Queue_enqueue_commands(database, g.queue, key, data, order, fail)
    IN  IF g.none
        THEN /\ last' = Counting(Call("enqueue", queue_name, key, data,
                                      "QueueNotFound", "", "", EmptyDict), 0)
             /\ UNCHANGED <<queues, database, pushed, popped>>
        ELSE /\ e.pushed => TotalPushed < MaxPush
             /\ database' = e.db
             /\ pushed' = IF e.pushed
                          THEN [pushed EXCEPT ![queue_name] = Append(@, key)]
                          ELSE pushed
             /\ last' = Counting(Call("enqueue", queue_name, key, data,
                                      e.raised, "True", "", EmptyDict), e.calls)
             /\ UNCHANGED <<queues, popped>>

\* the queue names and keys used over the breaking connection
BreakNames == {"foo"}
BreakKeys == {"k1", "queue:foo"}

NextBreak ==
    \/ \E n \in BreakNames : create_queue(n) /\ UNCHANGED tvars
    \/ \E n \in BreakNames, key \in BreakKeys, data \in DataSet :
          \E order \in Orders(data), fail \in 0..(1 + Cardinality(items(data))) :
             enqueue_commands(n, key, data, order, fail) /\ UNCHANGED tvars
    \/ \E n \in BreakNames : dequeue(n) /\ UNCHANGED tvars
    \/ \E n \in BreakNames : pop(n) /\ UNCHANGED tvars
    \/ \E key \in BreakKeys : get_hash_data(key) /\ UNCHANGED tvars

SpecBreak == Init /\ [][NextBreak]_vars

----------------------------------------------------------------------------
(* The transport's reading of a dequeue *)

\* resources/api.py errors
errors == {"QueueNotFound"}

\* handle_error changed to skip the errors table
handle_error_unlisted(description) ==
    [status |-> 500, message |-> "Internal Server Error", data |-> EmptyDict]

\* QueueApi.handle_error: a known description answers 400 with its message,
\* anything else is left to flask-restful, which answers 500
handle_error(description) ==
    IF description \in errors
    THEN [status |-> 400,
          message |-> "A queue with that given name does not exist",
          data |-> EmptyDict]
    ELSE [status |-> 500, message |-> "Internal Server Error", data |-> EmptyDict]

\* Dequeue.post changed to answer an empty mapping as it answers None
Dequeue_post_falsy(call) ==
    IF call.raised # NoError THEN handle_error(call.raised)
    ELSE IF call.ret = "None" \/ Cardinality(items(call.retdata)) = 0
    THEN [status |-> 400, message |-> "Queue does not exist", data |-> EmptyDict]
    ELSE [status |-> 200, message |-> "", data |-> call.retdata]

\* Dequeue.post, given how queue_manager.dequeue(queue_name) ended
Dequeue_post(call) ==
    IF call.raised # NoError THEN handle_error(call.raised)
    ELSE IF call.ret = "None"
    THEN [status |-> 400, message |-> "Queue does not exist", data |-> EmptyDict]
    ELSE IF Cardinality(items(call.retdata)) = 0
    THEN [status |-> 200, message |-> "Queue is empty", data |-> EmptyDict]
    ELSE [status |-> 200, message |-> "", data |-> call.retdata]

Next ==
    \/ \E n \in QueueNames : create_queue(n) /\ UNCHANGED tvars
    \/ \E n \in QueueNames, key \in Keys, data \in DataSet :
          enqueue(n, key, data) /\ UNCHANGED tvars
    \/ \E n \in QueueNames : dequeue(n) /\ UNCHANGED tvars
    \/ \E n \in QueueNames : pop(n) /\ UNCHANGED tvars
    \/ \E key \in Keys : get_hash_data(key) /\ UNCHANGED tvars
    \/ \E key \in Keys : delete_hash_data(key) /\ UNCHANGED tvars
    \/ \E n \in QueueNames : peek_last_element(n) /\ UNCHANGED tvars

Spec == Init /\ [][Next]_vars

----------------------------------------------------------------------------
(* The manager called from several threads.  QueueManager.queues is a class *)
(* attribute, so every manager of the process shares the one dict.  A step  *)
(* is one dict operation: the store of line 14, the read of line 16, the    *)
(* membership test of line 37, the read of line 38; the interpreter runs    *)
(* each of them indivisibly.                                                *)

\* the key and the data the threads enqueue
ThreadKeys == {"k1"}
ThreadData == {Dict("1", Nil)}

\* thread t calls create_queue, enqueue or dequeue of its manager
begin(t, op, queue_name) ==
    /\ threads[t].pc = "idle"
    /\ threads' = [threads EXCEPT ![t] =
          Frame(IF op = "create_queue" THEN "create_queue:14"
                ELSE "_get_queue:37",
                op, queue_name, queue_name \in created, NoError, NoQueue,
                NoQueue)]
    /\ UNCHANGED <<queues, database, pushed, popped, last, created>>

\* line 14 changed to keep the Queue the name already resolves to
create_queue_setdefault(t) ==
    LET f == threads[t]
    IN  /\ f.pc = "create_queue:14"
        /\ queues' = [n \in DOMAIN queues \cup {f.queue_name} |->
                        IF n \in DOMAIN queues THEN queues[n]
                        ELSE Queue(f.queue_name, Connection(t))]
        /\ threads' = [threads EXCEPT ![t] =
              [f EXCEPT !.pc = "create_queue:16",
                        !.previous = _get_queue(queues, f.queue_name).queue]]
        /\ UNCHANGED <<database, pushed, popped, last, created>>

\* line 14 changed to delete the name's entry in one step and store the new
\* Queue in the next
create_queue_delete_first(t) ==
    LET f == threads[t]
    IN  /\ f.pc = "create_queue:14"
        /\ IF f.queue_name \in DOMAIN queues /\ f.previous = NoQueue
           THEN /\ queues' = [n \in DOMAIN queues \ {f.queue_name} |-> queues[n]]
                /\ threads' = [threads EXCEPT ![t] =
                      [f EXCEPT !.previous = queues[f.queue_name]]]
           ELSE /\ queues' = [n \in DOMAIN queues \cup {f.queue_name} |->
                                IF n = f.queue_name
                                THEN Queue(f.queue_name, Connection(t))
                                ELSE queues[n]]
                /\ threads' = [threads EXCEPT ![t] =
                      [f EXCEPT !.pc = "create_queue:16"]]
        /\ UNCHANGED <<database, pushed, popped, last, created>>

\* QueueManager.create_queue, line 14: build the Queue and store it
create_queue_store(t) ==
    LET f == threads[t]
    IN  /\ f.pc = "create_queue:14"
        /\ queues' = [n \in DOMAIN queues \cup {f.queue_name} |->
                        IF n = f.queue_name
                        THEN Queue(f.queue_name, Connection(t))
                        ELSE queues[n]]
        /\ threads' = [threads EXCEPT ![t] =
              [f EXCEPT !.pc = "create_queue:16",
                        !.previous = _get_queue(queues, f.queue_name).queue]]
        /\ UNCHANGED <<database, pushed, popped, last, created>>

\* QueueManager.create_queue, line 16: read the entry back and return it; a
\* name gone since the store raises KeyError
create_queue_return(t) ==
    LET f == threads[t]
    IN  /\ f.pc = "create_queue:16"
        /\ threads' = [threads EXCEPT ![t] =
              IF f.queue_name \in DOMAIN queues
              THEN [f EXCEPT !.pc = "idle", !.ret = queues[f.queue_name]]
              ELSE [f EXCEPT !.pc = "idle", !.raised = "KeyError"]]
        /\ created' = created \cup {f.queue_name}
        /\ UNCHANGED <<queues, database, pushed, popped, last>>

\* QueueManager._get_queue, line 37: the membership test; without the name
\* _get_queue returns None and the caller raises QueueNotFound
_get_queue_in(t) ==
    LET f == threads[t]
    IN  /\ f.pc = "_get_queue:37"
        /\ threads' = [threads EXCEPT ![t] =
              IF f.queue_name \in DOMAIN queues
              THEN [f EXCEPT !.pc = "_get_queue:38"]
              ELSE [f EXCEPT !.pc = "idle", !.raised = "QueueNotFound"]]
        /\ UNCHANGED <<queues, database, pushed, popped, last, created>>

\* line 38 changed to build a Queue on the caller's own connection
_get_queue_own(t) ==
    LET f == threads[t]
    IN  /\ f.pc = "_get_queue:38"
        /\ threads' = [threads EXCEPT ![t] =
              [f EXCEPT !.pc = IF f.op = "enqueue" THEN "enqueue:24"
                               ELSE "dequeue:34",
                        !.ret = Queue(f.queue_name, Connection(t))]]
        /\ UNCHANGED <<queues, database, pushed, popped, last, created>>

\* QueueManager._get_queue, line 38: the read; a name gone since the test
\* raises KeyError
_get_queue_getitem(t) ==
    LET f == threads[t]
    IN  /\ f.pc = "_get_queue:38"
        /\ threads' = [threads EXCEPT ![t] =
              IF f.queue_name \in DOMAIN queues
              THEN [f EXCEPT !.pc = IF f.op = "enqueue" THEN "enqueue:24"
                                    ELSE "dequeue:34",
                             !.ret = queues[f.queue_name]]
              ELSE [f EXCEPT !.pc = "idle", !.raised = "KeyError"]]
        /\ UNCHANGED <<queues, database, pushed, popped, last, created>>

\* QueueManager.enqueue, line 24: queue.enqueue(key, data) on the Queue found
enqueue_queue(t, key, data) ==
    LET f == threads[t]
        e == Queue_enqueue(database, f.ret, key, data)
    IN  /\ f.pc = "enqueue:24"
        /\ e.pushed => TotalPushed < MaxPush
        /\ database' = e.db
        /\ pushed' = IF e.pushed
                     THEN [pushed EXCEPT ![f.queue_name] = Append(@, key)]
                     ELSE pushed
        /\ threads' = [threads EXCEPT ![t] =
              [f EXCEPT !.pc = "idle", !.raised = e.raised]]
        /\ UNCHANGED <<queues, popped, last, created>>

\* QueueManager.dequeue, line 34: queue.dequeue() on the Queue found
dequeue_queue(t) ==
    LET f == threads[t]
        d == Queue_dequeue(database, f.ret)
    IN  /\ f.pc = "dequeue:34"
        /\ database' = d.db
        /\ threads' = [threads EXCEPT ![t] =
              [f EXCEPT !.pc = "idle", !.raised = d.raised]]
        /\ UNCHANGED <<queues, pushed, popped, last, created>>

NextThreads ==
    \/ \E t \in Threads, op \in {"create_queue", "enqueue", "dequeue"},
          n \in QueueNames : begin(t, op, n)
    \/ \E t \in Threads : create_queue_store(t)
    \/ \E t \in Threads : create_queue_return(t)
    \/ \E t \in Threads : _get_queue_in(t)
    \/ \E t \in Threads : _get_queue_getitem(t)
    \/ \E t \in Threads, key \in ThreadKeys, data \in ThreadData :
          enqueue_queue(t, key, data)
    \/ \E t \in Threads : dequeue_queue(t)

SpecThreads == Init /\ [][NextThreads]_vars

----------------------------------------------------------------------------
(* Queue objects built and used directly, as src/tests/test_queue.py does:  *)
(* each thread builds a Queue of its own and calls its list methods.        *)

\* python's None, the default of the connection parameter
None == "None"

\* Queue.__init__: raises without a connection, else sets name and database
Queue_init(name, conn) ==
    IF conn = None
    THEN [raised |-> "Exception", queue |-> NoQueue]
    ELSE [raised |-> NoError, queue |-> Queue(name, conn)]

\* the call record of a constructor call: the connection given and the
\* object built
Built(call, conn, queue) == call @@ [connection |-> conn, retqueue |-> queue]

\* thread t evaluates Queue(name, connection=conn) and keeps the result
new_Queue(t, name, conn) ==
    LET r == Queue_init(name, conn)
    IN  /\ threads' = [threads EXCEPT ![t] =
              Frame("idle", "Queue", name, FALSE, r.raised, r.queue, NoQueue)]
        /\ last' = Built(Call("Queue", name, "", EmptyDict, r.raised,
                              IF r.raised = NoError THEN "Queue" ELSE "",
                              "", EmptyDict), conn, r.queue)
        /\ UNCHANGED <<queues, database, pushed, popped, created>>

\* thread t calls _push_to_queue(key) on the Queue it built
push_to_queue(t, key) ==
    LET f == threads[t]
        r == _push_to_queue(database, f.ret, key)
    IN  /\ f.ret # NoQueue
        /\ r.raised = NoError => TotalPushed < MaxPush
        /\ database' = r.db
        /\ pushed' = IF r.raised = NoError
                     THEN [pushed EXCEPT ![f.queue_name] = Append(@, key)]
                     ELSE pushed
        /\ threads' = [threads EXCEPT ![t] = [f EXCEPT !.op = "_push_to_queue"]]
        /\ last' = Call("_push_to_queue", f.queue_name, key, EmptyDict,
                        r.raised, "None", "", EmptyDict)
        /\ UNCHANGED <<queues, popped, created>>

\* thread t calls _pop() on the Queue it built
pop_queue(t) ==
    LET f == threads[t]
        r == _pop(database, f.ret)
    IN  /\ f.ret # NoQueue
        /\ database' = r.db
        /\ popped' = IF r.raised = NoError /\ ~r.none
                     THEN [popped EXCEPT ![f.queue_name] = Append(@, r.value)]
                     ELSE popped
        /\ threads' = [threads EXCEPT ![t] = [f EXCEPT !.op = "_pop"]]
        /\ last' = Call("_pop", f.queue_name, "", EmptyDict, r.raised,
                        IF r.none THEN "None" ELSE "key", r.value, EmptyDict)
        /\ UNCHANGED <<queues, pushed, created>>

\* thread t calls _peek_last_element() on the Queue it built
peek_queue(t) ==
    LET f == threads[t]
        r == _peek_last_element(database, f.ret)
    IN  /\ f.ret # NoQueue
        /\ threads' = [threads EXCEPT ![t] =
              [f EXCEPT !.op = "_peek_last_element"]]
        /\ last' = Call("_peek_last_element", f.queue_name, "", EmptyDict,
                        r.raised, IF r.empty THEN "[]" ELSE "key", r.value,
                        EmptyDict)
        /\ UNCHANGED <<queues, database, pushed, popped, created>>

NextQueue ==
    \/ \E t \in Threads, n \in QueueNames :
          \E conn \in {None, Connection(t)} : new_Queue(t, n, conn)
    \/ \E t \in Threads, key \in Keys : push_to_queue(t, key)
    \/ \E t \in Threads : pop_queue(t)
    \/ \E t \in Threads : peek_queue(t)

SpecQueue == Init /\ [][NextQueue]_vars

----------------------------------------------------------------------------
(* The Enqueue resource of src/siphon/resources/queue.py in front of the    *)
(* manager.  A request is the queue name of its URL and its form.           *)

\* a request form: str -> str over Fields, a field it lacks Nil
Form(key, queue_name, a, b) ==
    [f \in Fields |-> IF f = "key" THEN key
                      ELSE IF f = "queue_name" THEN queue_name
                      ELSE IF f = "a" THEN a ELSE b]
FormSet ==
    {Form(key, queue_name, a, b) :
        key \in {Nil, "k1", "queue:foo"}, queue_name \in {Nil, "bar"},
        a \in {Nil, "1"}, b \in {Nil, "2"}}

\* Enqueue.parser.parse_args: 'key' from the form, required, 'queue_name'
\* from the URL; a missing key aborts the request
Enqueue_parse_args(view_queue_name, form) ==
    IF form["key"] = Nil
    THEN [raised |-> "BadRequest", args |-> EmptyDict]
    ELSE [raised |-> NoError,
          args |-> [f \in Fields |-> IF f = "key" THEN form["key"]
                                     ELSE IF f = "queue_name"
                                     THEN view_queue_name ELSE Nil]]

\* _get_extra_params: request.form.to_dict()
_get_extra_params(form) == form

\* dict.update: the entries of extra replace and extend those of args
update(args, extra) ==
    [f \in Fields |-> IF extra[f] # Nil THEN extra[f] ELSE args[f]]

\* get_args, given what parse_args returned
get_args(parsed, form) == update(parsed, _get_extra_params(form))

\* args.pop read as args.get: the entry stays in the dict
dict_get(args, k) == [value |-> args[k], rest |-> args]

\* args.pop(k, None): the value, and the dict without the entry
dict_pop(args, k) == [value |-> args[k], rest |-> [args EXCEPT ![k] = Nil]]

\* QueueManager.enqueue as a function of the registry and the store
QueueManager_enqueue(qs, db, queue_name, key, data) ==
    LET g == _get_queue(qs, queue_name)
        e == Queue_enqueue(db, g.queue, key, data)
    IN  IF g.none
        THEN [raised |-> "QueueNotFound", db |-> db, pushed |-> FALSE]
        ELSE e

\* the 201 of Enqueue.post, its body {'status': 'enqueued'}
Enqueued == [status |-> 201, message |-> "", data |-> EmptyDict,
             json_status |-> "enqueued"]

\* the 400 flask-restful answers when parse_args aborts
BadRequest == [status |-> 400, message |-> "The unique key of your data",
               data |-> EmptyDict]

\* the call record of a request: its form, what the resource passed to the
\* manager, and the response
Answered(call, view_queue_name, form, response) ==
    call @@ [view_queue_name |-> view_queue_name, form |-> form,
             response |-> response]

\* Enqueue.post for POST /api/enqueue/<view_queue_name> with the form;
\* last.queue, last.key and last.data are what it passed to the manager
Enqueue_post(view_queue_name, form) ==
    LET p == Enqueue_parse_args(view_queue_name, form)
        args == get_args(p.args, form)
        key == dict_pop(args, "key")
        queue_name == dict_pop(key.rest, "queue_name")
        e == QueueManager_enqueue(queues, database, queue_name.value,
                                  key.value, queue_name.rest)
    IN  IF p.raised # NoError
        THEN /\ last' = Answered(Call("Enqueue.post", "", "", EmptyDict,
                                      p.raised, "", "", EmptyDict),
                                 view_queue_name, form, BadRequest)
             /\ UNCHANGED <<queues, database, pushed, popped>>
        ELSE /\ e.pushed => TotalPushed < MaxPush
             /\ database' = e.db
             /\ pushed' = IF e.pushed
                          THEN [pushed EXCEPT ![queue_name.value] =
                                   Append(@, key.value)]
                          ELSE pushed
             /\ last' = Answered(Call("Enqueue.post", queue_name.value,
                                      key.value, queue_name.rest, e.raised,
                                      "", "", EmptyDict),
                                 view_queue_name, form,
                                 IF e.raised = NoError THEN Enqueued
                                 ELSE handle_error(e.raised))
             /\ UNCHANGED <<queues, popped>>

NextApi ==
    \/ \E n \in QueueNames : create_queue(n) /\ UNCHANGED tvars
    \/ \E n \in QueueNames, form \in FormSet :
          Enqueue_post(n, form) /\ UNCHANGED tvars
    \/ \E n \in QueueNames : pop(n) /\ UNCHANGED tvars
    \/ \E key \in Keys : get_hash_data(key) /\ UNCHANGED tvars

SpecApi == Init /\ [][NextApi]_vars

----------------------------------------------------------------------------
(* Dequeue.post as a function of how queue_manager.dequeue ended, the       *)
(* manager replaced by its outcome as src/tests/resources/test_dequeue.py   *)
(* does with patch('siphon.queue_manager.dequeue').                         *)

\* the ways a dequeue can end: None, a dict, or an exception
Outcomes ==
    {[raised |-> NoError, ret |-> "None", retdata |-> EmptyDict]}
    \cup {[raised |-> NoError, ret |-> "dict", retdata |-> d] : d \in Dicts}
    \cup {[raised |-> x, ret |-> "", retdata |-> EmptyDict] :
             x \in {"QueueNotFound", "AttributeError"}}

\* Dequeue.post for the queue name of the URL, the manager's dequeue ending
\* as outcome
Dequeue_request(view_queue_name, outcome) ==
    LET c == Call("dequeue", view_queue_name, "", EmptyDict, outcome.raised,
                  outcome.ret, "", outcome.retdata)
    IN  /\ last' = Answered(c, view_queue_name, EmptyDict, Dequeue_post(c))
        /\ UNCHANGED <<queues, database, pushed, popped>>

NextDequeue ==
    \E n \in QueueNames, outcome \in Outcomes :
        Dequeue_request(n, outcome) /\ UNCHANGED tvars

SpecDequeue == Init /\ [][NextDequeue]_vars

----------------------------------------------------------------------------
(* Draining one queue: enqueues stop once MaxPush keys were pushed, and     *)
(* QueueManager.dequeue keeps being called on the queue.                    *)

\* the queue that is drained
DrainName == "foo"

NextDrain ==
    \/ create_queue(DrainName) /\ UNCHANGED tvars
    \/ \E key \in Keys, data \in DataSet :
          enqueue(DrainName, key, data) /\ UNCHANGED tvars
    \/ dequeue(DrainName) /\ UNCHANGED tvars

\* dequeue is called again and again
SpecDrain ==
    /\ Init
    /\ [][NextDrain]_vars
    /\ WF_vars(dequeue(DrainName) /\ UNCHANGED tvars)

----------------------------------------------------------------------------
(* Readings of the state used by the properties below *)

\* the ordered list the registered Queue of queue_name addresses
ListIn(qs, db, queue_name) == db[qs[queue_name].name].items
ListOf(queue_name) == ListIn(queues, database, queue_name)

\* the field map stored under a job key
FieldsOf(key) == database[key].fields

\* how often key occurs in the sequence s
Count(s, key) == Cardinality({i \in 1..Len(s) : s[i] = key})

\* the call returned the dict data
ReturnedDict(call, data) ==
    call.raised = NoError /\ call.ret = "dict" /\ call.retdata = data

----------------------------------------------------------------------------
C2_RoundTrip ==
    [][(/\ last.op = "enqueue" /\ last.raised = NoError
        /\ last.queue \in DOMAIN queues
        /\ ListOf(last.queue) = <<last.key>>
        /\ FieldsOf(last.key) = last.data
        /\ last'.op = "dequeue" /\ last'.queue = last.queue)
          => ReturnedDict(last', last.data)]_vars

(* C3 Unknown queue: QueueManager.enqueue and QueueManager.dequeue on a    *)
(* name that create_queue was never given raise QueueNotFound (no return   *)
(* value, no store error).                                                 *)
C3_UnknownQueue ==
    (last.op \in {"enqueue", "dequeue"} /\ last.queue \notin DOMAIN queues)
        => last.raised = "QueueNotFound" /\ last.ret = ""

\* an enqueue on the unknown queue bar while foo exists and holds a job
C3_Witness ==
    /\ last.op = "enqueue" /\ last.queue = "bar"
    /\ DOMAIN queues = {"foo"}
    /\ ListOf("foo") # <<>>
    /\ last.raised = "QueueNotFound"

(* C4 Empty-queue idempotence: QueueManager.dequeue on a created queue     *)
(* whose list is empty returns the empty mapping, never raises, and leaves *)
(* the list empty.                                                         *)
C4_EmptyDequeue ==
    [][(/\ last'.op = "dequeue" /\ last'.queue \in DOMAIN queues
        /\ ListOf(last'.queue) = <<>>)
          => /\ ReturnedDict(last', EmptyDict)
             /\ ListIn(queues', database', last'.queue) = <<>>]_vars

C6_CreationReplacement ==
    [][last'.op = "create_queue" =>
          /\ database' = database
          /\ \A n \in DOMAIN queues :
                /\ n \in DOMAIN queues'
                /\ queues'[n].name = queues[n].name
                /\ ListIn(queues', database', n) = ListOf(n)]_vars

\* foo was created again while it held two jobs
C6_Witness ==
    /\ last.op = "create_queue" /\ last.queue = "foo"
    /\ ListOf("foo") = <<"k1", "k2">>
    /\ FieldsOf("k1") # EmptyDict

(* C7 Concrete scenario: after create_queue(q), enqueue(q, k1, F1) and     *)
(* enqueue(q, k2, F2), three successive dequeue(q) calls return F1, then   *)
(* F2, then the empty mapping.                                             *)
C7_Scenario ==
    [][\A q \in DOMAIN queues :
        (/\ pushed[q] = <<"k1", "k2">>
         /\ last'.op = "dequeue" /\ last'.queue = q)
          => /\ (popped[q] = <<>> /\ ListOf(q) = <<"k1", "k2">>)
                    => ReturnedDict(last', FieldsOf("k1"))
             /\ (popped[q] = <<"k1">> /\ ListOf(q) = <<"k2">>)
                    => ReturnedDict(last', FieldsOf("k2"))
             /\ (popped[q] = <<"k1", "k2">> /\ ListOf(q) = <<>>)
                    => ReturnedDict(last', EmptyDict)]_vars

(* C8 Enqueue effect and order: QueueManager.enqueue(queue, key, fields)   *)
(* on a registered queue appends key to the tail of the queue's list, then *)
(* writes every entry of fields into the field map of key, and returns     *)
(* True.                                                                   *)
C8_EnqueueEffect ==
    (last.op = "enqueue" /\ last.queue \in DOMAIN queues)
        => /\ last.raised = NoError /\ last.ret = "True"
           /\ ListOf(last.queue) # <<>>
           /\ ListOf(last.queue)[Len(ListOf(last.queue))] = last.key
           /\ \A f \in items(last.data) : FieldsOf(last.key)[f] = last.data[f]

(* C9 Enqueue never fails while the store answers: for every key and every *)
(* field map, the empty one included, QueueManager.enqueue on a registered *)
(* queue raises nothing and the key is then in the queue's list.           *)
C9_EnqueueNeverFails ==
    (last.op = "enqueue" /\ last.queue \in DOMAIN queues)
        => /\ last.raised = NoError
           /\ \E i \in 1..Len(ListOf(last.queue)) : ListOf(last.queue)[i] = last.key

(* C10 At most one owner of a slot: over all the pop calls made on a       *)
(* queue, by whichever callers and in whichever order, no key was handed   *)
(* out more often than it was pushed.                                      *)
C10_AtMostOneOwner ==
    \A n \in QueueNames : \A key \in Keys :
        Count(popped[n], key) <= Count(pushed[n], key)

\* the same key was pushed twice and two pop calls got one entry each
C10_Witness ==
    /\ last.op = "_pop"
    /\ pushed["foo"] = <<"k1", "k1">>
    /\ popped["foo"] = <<"k1", "k1">>

(* C11 Key uniqueness while pending: in every reachable state a job key    *)
(* occurs at most once in a queue's list.                                  *)
C11_KeyUnique ==
    \A n \in DOMAIN queues : \A key \in Keys : Count(ListOf(n), key) <= 1

(* C11 as amended: a key comes to occur more than once in a queue's list   *)
(* only by an enqueue on that queue of a key that is already in the list;  *)
(* every other call, and an enqueue of a key that is not pending, leaves   *)
(* each key at most once.                                                  *)
C11_UniqueUnlessReenqueued ==
    [][\A n \in DOMAIN queues : \A key \in Keys :
        (/\ Count(ListOf(n), key) <= 1
         /\ Count(ListIn(queues', database', n), key) > 1)
          => /\ last'.op = "enqueue" /\ last'.queue = n /\ last'.key = key
             /\ Count(ListOf(n), key) = 1]_vars

\* two different keys were enqueued on foo and each is listed once
C11_Witness ==
    /\ last.op = "enqueue" /\ last.queue = "foo" /\ last.key = "k2"
    /\ "foo" \in DOMAIN queues
    /\ ListOf("foo") = <<"k1", "k2">>

(* C13 Partial job write is exposed distinctly: a QueueManager.dequeue on  *)
(* a queue whose head key has no field map ends differently from a dequeue *)
(* on the same queue with an empty list.                                   *)
C13_PartialWriteDistinct ==
    \A n \in DOMAIN queues :
        (/\ last.op = "dequeue" /\ last.queue = n
         /\ ListOf(n) # <<>>
         /\ FieldsOf(Head(ListOf(n))) = EmptyDict)
          => LET empty == Queue_dequeue(
                             [database EXCEPT ![queues[n].name] = NoValue],
                             queues[n])
             IN  <<last.raised, last.ret, last.retdata>>
                     # <<empty.raised, "", EmptyDict>>

(* C14 Registry membership is monotonic: no name is registered at the      *)
(* start, create_queue registers its name, and no call ever removes a      *)
(* registered name.                                                        *)
C14_Monotonic ==
    /\ DOMAIN queues = {}
    /\ [][/\ DOMAIN queues \subseteq DOMAIN queues'
          /\ last'.op = "create_queue" => last'.queue \in DOMAIN queues']_vars

\* both names registered, and calls of the other kinds made since
C14_Witness ==
    /\ DOMAIN queues = QueueNames
    /\ last.op = "dequeue"
    /\ popped["foo"] # <<>>

(* C17 Dequeue never blocks: a QueueManager.dequeue on a registered queue  *)
(* with an empty list ends at once with the empty mapping, without any     *)
(* enqueue having to happen first.                                         *)
C17_DequeueNeverBlocks ==
    [][\A n \in DOMAIN queues :
        (last'.op = "dequeue" /\ last'.queue = n /\ ListOf(n) = <<>>)
          => /\ last'.raised = NoError
             /\ last'.ret = "dict" /\ Cardinality(items(last'.retdata)) = 0
             /\ pushed' = pushed]_vars

(* C18 Field maps are keyed by the job key alone: an enqueue of a key that *)
(* is pending on another queue writes into the one field map both entries  *)
(* refer to, replacing the fields of the same name and keeping the others; *)
(* a read of the key then gives that map.                                  *)
C18_SharedFieldMap ==
    [][\A key \in Keys :
        (/\ last'.op = "enqueue" /\ last'.key = key /\ last'.raised = NoError
         /\ \E n \in DOMAIN queues :
               n # last'.queue /\ Count(ListOf(n), key) > 0)
          => /\ \A f \in Fields :
                   database'[key].fields[f] =
                       IF f \in items(last'.data) THEN last'.data[f]
                       ELSE database[key].fields[f]
             /\ _get_hash_data(database', key).data = database'[key].fields]_vars

\* k1 is pending on foo and on bar; the later enqueue of {'a': '1'} replaced
\* the field a of the earlier {'a': '2', 'b': '1'}
C18_Witness ==
    /\ last.op = "enqueue" /\ last.queue = "bar" /\ last.key = "k1"
    /\ last.data = Dict("1", Nil)
    /\ DOMAIN queues = QueueNames
    /\ ListOf("foo") = <<"k1">> /\ ListOf("bar") = <<"k1">>
    /\ FieldsOf("k1") = Dict("1", "1")

(* C19 A job's field map persists after dequeue: QueueManager.dequeue      *)
(* takes the head key off the list and returns its field map, which stays  *)
(* stored; a field map changes only by an enqueue of its key or by         *)
(* _delete_hash_data of its key.                                           *)
C19_FieldsPersist ==
    [][/\ \A n \in DOMAIN queues :
            (last'.op = "dequeue" /\ last'.queue = n /\ ListOf(n) # <<>>)
              => /\ ListIn(queues', database', n) = Tail(ListOf(n))
                 /\ ReturnedDict(last', FieldsOf(Head(ListOf(n))))
                 /\ database'[Head(ListOf(n))] = database[Head(ListOf(n))]
       /\ \A key \in Keys :
            database'[key].fields # database[key].fields
              => last'.op \in {"enqueue", "_delete_hash_data"}
                 /\ last'.key = key]_vars

\* C12: enqueue is not atomic.  The key is pushed before any field is
\* written, so an enqueue whose connection breaks after the push leaves the
\* key at the tail of the list with calls - 2 of its fields written, fewer
\* than the data has, and a read of the key in that window returns what the
\* map holds then: None for an empty map, the partial map otherwise.
C12_EnqueueGap ==
    [][(/\ last'.op = "enqueue"
        /\ last'.queue \in DOMAIN queues
        /\ last'.raised = "ConnectionError"
        /\ last'.calls > 1)
       => /\ ListIn(queues', database', last'.queue)
               = Append(ListOf(last'.queue), last'.key)
          /\ \E W \in SUBSET items(last'.data) :
                /\ Cardinality(W) = last'.calls - 2
                /\ Cardinality(W) < Cardinality(items(last'.data))
                /\ \A f \in Fields :
                      database'[last'.key].fields[f]
                          = IF f \in W THEN last'.data[f]
                            ELSE database[last'.key].fields[f]
          /\ LET r == _get_hash_data(database', last'.key)
             IN  r.raised = NoError
                    => /\ r.none <=> database'[last'.key].fields = EmptyDict
                       /\ ~r.none => r.data = database'[last'.key].fields]_vars

\* a key popped from the list whose enqueue broke after one of its two
\* fields was written, read back as the partial map
C12_Witness ==
    /\ "foo" \in DOMAIN queues
    /\ pushed["foo"] = <<"k1">>
    /\ popped["foo"] = <<"k1">>
    /\ last.op = "_get_hash_data"
    /\ last.key = "k1"
    /\ last.raised = NoError
    /\ last.retdata \in {Dict("2", Nil), Dict(Nil, "1")}

\* C20: a store failure during enqueue reaches the caller as the exception
\* the store raised, and no command is sent twice: an enqueue that returns
\* sent its push and one hset per item, one that raises sent fewer or as
\* many and returns nothing, and an enqueue whose push failed changed
\* neither the store nor the registry.
C20_FailurePropagates ==
    [][(last'.op = "enqueue" /\ last'.queue \in DOMAIN queues)
       => /\ last'.calls <= 1 + Cardinality(items(last'.data))
          /\ last'.raised = NoError
                => last'.calls = 1 + Cardinality(items(last'.data))
          /\ last'.raised \in {NoError, "ConnectionError", "ResponseError"}
          /\ (last'.raised # NoError /\ last'.calls = 1)
                => /\ database' = database
                   /\ queues' = queues
                   /\ pushed' = pushed]_vars

\* an enqueue whose push met the broken connection: the caller has the
\* ConnectionError after one command, the list is still empty
C20_Witness ==
    /\ "foo" \in DOMAIN queues
    /\ last.op = "enqueue"
    /\ last.queue = "foo"
    /\ last.raised = "ConnectionError"
    /\ last.calls = 1
    /\ last.data = Dict("2", "1")
    /\ ListOf("foo") = <<>>

\* C15: a queue name resolves to at most one Queue, one built for that
\* name.  The store of create_queue puts the caller's new Queue under the
\* name whether or not the name had an entry, leaves every other entry as it
\* was, and create_queue returns the Queue the name resolves to when it
\* returns.
C15_SingleMapping ==
    [][/\ \A n \in DOMAIN queues' :
             \E c \in {Connection(t) : t \in Threads} : queues'[n] = Queue(n, c)
       /\ \A t \in Threads :
            /\ (threads[t].pc = "create_queue:14" /\ threads'[t] # threads[t])
                  => /\ DOMAIN queues' = DOMAIN queues \cup {threads[t].queue_name}
                     /\ queues'[threads[t].queue_name]
                           = Queue(threads[t].queue_name, Connection(t))
                     /\ \A m \in DOMAIN queues \ {threads[t].queue_name} :
                           queues'[m] = queues[m]
            /\ (threads[t].pc = "create_queue:16" /\ threads'[t].pc = "idle")
                  => /\ threads'[t].raised = NoError
                     /\ threads'[t].queue_name \in DOMAIN queues'
                     /\ threads'[t].ret = queues'[threads'[t].queue_name]]_vars

\* t2's create_queue("foo") has replaced the Queue t1 stored and returned
\* the Queue the name now resolves to
C15_Witness ==
    /\ threads["t2"].op = "create_queue"
    /\ threads["t2"].pc = "idle"
    /\ threads["t2"].queue_name = "foo"
    /\ threads["t2"].previous = Queue("foo", Connection("t1"))
    /\ threads["t2"].ret = Queue("foo", Connection("t2"))
    /\ queues["foo"] = Queue("foo", Connection("t2"))

\* C16: with create_queue, enqueue and dequeue interleaved step by step, no
\* lookup raises KeyError, and no enqueue or dequeue that started after some
\* create_queue for its name had returned ends in QueueNotFound.
C16_RegistrySafe ==
    \A t \in Threads :
        /\ threads[t].raised # "KeyError"
        /\ threads[t].after => threads[t].raised # "QueueNotFound"

\* t1's enqueue, started after a create_queue("foo") had returned, has found
\* the Queue t2 stored since, while t2's create_queue has yet to return
C16_Witness ==
    /\ threads["t1"].op = "enqueue"
    /\ threads["t1"].pc = "idle"
    /\ threads["t1"].queue_name = "foo"
    /\ threads["t1"].after
    /\ threads["t1"].raised = NoError
    /\ threads["t1"].ret = Queue("foo", Connection("t2"))
    /\ threads["t2"].pc = "create_queue:16"
    /\ threads["t2"].queue_name = "foo"
    /\ threads["t2"].previous # NoQueue

\* C21: constructing a Queue without a connection succeeds and yields a
\* queue whose name is 'queue:<name>' and whose database is None.
C21_NoConnection ==
    (last.op = "Queue" /\ last.connection = None)
        => /\ last.raised = NoError
           /\ last.retqueue.name = "queue:" \o last.queue
           /\ last.retqueue.database = None

\* C22: a Queue built for name n uses the list identifier 'queue:' + n, so
\* two Queues address the same list exactly when they have the same name: a
\* push through one Queue appends to the list of every Queue of that name
\* and leaves the list of every Queue of another name as it was.
C22_StorageIdentity ==
    [][/\ \A t \in Threads :
             threads'[t].ret # NoQueue
                => threads'[t].ret.name = "queue:" \o threads'[t].queue_name
       /\ \A t, u \in Threads :
             (threads'[t].ret # NoQueue /\ threads'[u].ret # NoQueue)
                => (threads'[t].queue_name = threads'[u].queue_name
                       <=> threads'[t].ret.name = threads'[u].ret.name)
       /\ (last'.op = "_push_to_queue" /\ last'.raised = NoError)
             => \A u \in Threads :
                   threads[u].ret # NoQueue
                      => database'[threads[u].ret.name].items
                            = IF threads[u].queue_name = last'.queue
                              THEN Append(database[threads[u].ret.name].items,
                                          last'.key)
                              ELSE database[threads[u].ret.name].items]_vars

\* two Queue objects of the name "foo" on different connections: the key t1
\* pushed through its Queue is the key t2 popped through its own
C22_Witness ==
    /\ threads["t1"].ret = Queue("foo", Connection("t1"))
    /\ threads["t2"].ret = Queue("foo", Connection("t2"))
    /\ threads["t1"].op = "_push_to_queue"
    /\ threads["t2"].op = "_pop"
    /\ pushed["foo"] = <<"k1">>
    /\ popped["foo"] = <<"k1">>
    /\ last.op = "_pop"
    /\ last.retkey = "k1"

\* C23: _peek_last_element returns the most recently pushed key of the queue
\* and leaves the list as it was, and returns None when the list is empty.
C23_PeekTail ==
    [][(last'.op = "_peek_last_element" /\ last'.raised = NoError)
       => /\ database' = database
          /\ IF ListOf(last'.queue) = <<>>
             THEN last'.ret = "None"
             ELSE /\ last'.ret = "key"
                  /\ last'.retkey
                        = ListOf(last'.queue)[Len(ListOf(last'.queue))]]_vars

C27_Prefix ==
    /\ \A n \in QueueNames :
          popped[n] \o database[Queue(n, connection).name].items = pushed[n]
    /\ [][(/\ last'.op # "_delete_hash_data"
           /\ \A n \in QueueNames :
                 popped[n] \o database[Queue(n, connection).name].items
                    = pushed[n])
          => \A n \in QueueNames :
                popped'[n] \o database'[Queue(n, connection).name].items
                   = pushed'[n]]_vars

\* foo after enqueue, enqueue, pop: one key popped, one still in the list
C27_Witness ==
    /\ "foo" \in DOMAIN queues
    /\ pushed["foo"] = <<"k1", "k2">>
    /\ popped["foo"] = <<"k1">>
    /\ ListOf("foo") = <<"k2">>
    /\ last.op = "_pop"

\* C28: an enqueue or dequeue that ends with QueueNotFound has changed
\* neither the registry nor any list or field map.
C28_FailedLookupNoEffect ==
    [][(last'.op \in {"enqueue", "dequeue"} /\ last'.raised = "QueueNotFound")
       => /\ queues' = queues
          /\ database' = database
          /\ pushed' = pushed
          /\ popped' = popped]_vars

\* an enqueue on the unregistered bar ended with QueueNotFound while foo
\* holds a key and its field map
C28_Witness ==
    /\ last.op = "enqueue"
    /\ last.queue = "bar"
    /\ last.raised = "QueueNotFound"
    /\ last.data = Dict("1", Nil)
    /\ DOMAIN queues = {"foo"}
    /\ ListOf("foo") = <<"k1">>
    /\ FieldsOf("k1") = Dict("2", "1")

\* C29: enqueue and dequeue on a queue leave what the store holds under the
\* list identifier of every queue of another name as it was, and
\* create_queue changes nothing in the store.
C29_Isolation ==
    [][/\ (last'.op \in {"enqueue", "dequeue"})
             => \A n \in DOMAIN queues \ {last'.queue} :
                   database'[queues[n].name] = database[queues[n].name]
       /\ last'.op = "create_queue" => database' = database]_vars

C31_FieldMapsApart ==
    [][/\ last'.op = "_delete_hash_data"
             => \A n \in DOMAIN queues :
                   ListIn(queues', database', n) = ListOf(n)
       /\ last'.op = "enqueue"
             => \A n \in DOMAIN queues \ {last'.queue} :
                   ListIn(queues', database', n) = ListOf(n)]_vars

\* C35: deleting a key's field map makes a read of the key return None and
\* leaves every registered queue's list, and so the key wherever it is
\* pending, as it was.
C35_DeleteKeepsPending ==
    [][last'.op = "_delete_hash_data"
       => /\ _get_hash_data(database', last'.key).none
          /\ \A n \in DOMAIN queues :
                Count(ListIn(queues', database', n), last'.key)
                   = Count(ListOf(n), last'.key)]_vars

C34_UrlQueue ==
    (last.op = "Enqueue.post" /\ last.raised # "BadRequest")
        => /\ last.queue = last.view_queue_name
           /\ last.key = last.form["key"]

\* C32: all managers share the one registry.  A name stored through any
\* manager is found by the lookup of every manager, the lookup hands out the
\* Queue the registry holds, which carries the connection of the manager
\* that stored it last, and the registry changes only by such a store.
C32_SharedRegistry ==
    [][\A t \in Threads :
          /\ (threads[t].pc = "_get_queue:37" /\ threads'[t] # threads[t]
                 /\ threads[t].queue_name \in DOMAIN queues)
                => threads'[t].pc = "_get_queue:38"
          /\ (threads[t].pc = "_get_queue:38" /\ threads'[t] # threads[t])
                => /\ threads'[t].raised = NoError
                   /\ threads'[t].ret = queues[threads[t].queue_name]
          /\ (threads[t].pc = "create_queue:14" /\ threads'[t] # threads[t])
                => queues'[threads[t].queue_name].database = Connection(t)
          /\ (threads[t].pc # "create_queue:14" \/ threads'[t] = threads[t])
                => (threads'[t] # threads[t] => queues' = queues)]_vars

\* t1, which has stored no Queue, has enqueued k1 on foo through the Queue
\* that t2's manager stored, on t2's connection
C32_Witness ==
    /\ threads["t1"].op = "enqueue"
    /\ threads["t1"].pc = "idle"
    /\ threads["t1"].queue_name = "foo"
    /\ threads["t1"].raised = NoError
    /\ threads["t1"].ret = Queue("foo", Connection("t2"))
    /\ queues = [n \in {"foo"} |-> Queue("foo", Connection("t2"))]
    /\ threads["t2"].op = "create_queue"
    /\ threads["t2"].pc = "idle"
    /\ threads["t2"].previous = NoQueue
    /\ pushed["foo"] = <<"k1">>

\* C33: once enqueues on a queue have stopped and dequeue keeps being called
\* on it, every key pending in its list is eventually returned and the list
\* is eventually empty.
C33_Drain ==
    (DrainName \in DOMAIN queues /\ ListOf(DrainName) # <<>>)
        ~> (/\ DrainName \in DOMAIN queues
            /\ ListOf(DrainName) = <<>>
            /\ popped[DrainName] = pushed[DrainName])

====
